---- MODULE Spec2Model ----
(***************************************************************************)
(* State-machine model of kenny-skaggs/tool_kit:                           *)
(*   src/tool_kit/external.py  the module variant: ErrorTracking,          *)
(*                             DatabaseConnection, SshTunnel               *)
(*   src/external.py           the legacy variant: ErrorTracking, Database *)
(*                             (process-wide singleton), SshTunnelFactory  *)
(* The third-party collaborators (sshtunnel, sqlalchemy, sentry_sdk) are   *)
(* modelled by the calls the code makes on them and the attributes it      *)
(* reads back.                                                             *)
(***************************************************************************)
EXTENDS Integers, Sequences, FiniteSets, TLC

(***************************************************************************)
(* Python values                                                           *)
(***************************************************************************)
\* None where the code expects a str (os.environ.get of an unset variable)
NoneStr == "<None>"
\* None where the code expects a port number
NonePort == -1
\* Optional objects are sequences: <<>> is None, <<x>> is the object x
None == <<>>
Some(x) == <<x>>

\* bool(s) for a str or None
TruthyStr(s) == s \notin {NoneStr, ""}
\* bool(p) for an int or None
TruthyPort(p) == p \notin {NonePort, 0}

(***************************************************************************)
(* Bounds and input domains                                                *)
(***************************************************************************)
\* forwarders one SshTunnel descriptor creates over a run
MaxForwarders == 2
\* _init_connection runs of the legacy Database over a run
MaxInitRuns == 4
\* session scopes opened over a run
MaxSessions == 3
\* ErrorTracking.initialize calls over a run
MaxInitializeCalls == 3

\* local ephemeral ports the forwarder may bind
LocalPorts == {40001, 40002}
\* values of the port argument of DatabaseConnection
ExplicitPorts == {NonePort, 0, 5432}
\* values of SSH_KEY_FILE / key_file_path
KeyFilePaths == {NoneStr, "", "id_rsa"}
\* values of SSH_PASSWORD / password
Passwords == {NoneStr, "secret"}
\* values of SENTRY_DSN
Dsns == {NoneStr, "", "https://key@sentry/1"}

(***************************************************************************)
(* Program constants                                                       *)
(***************************************************************************)
SshPort == 22
LegacyDbPort == 5432
LegacyRemotePort == 5432

VARIABLES
    \* ---- module variant: one SshTunnel descriptor
    key_file_path,   \* self._key_file_path
    password,        \* self._password
    forwarders,      \* every SSHTunnelForwarder the descriptor has created
    tunneler,        \* self._tunneler: 0 is None, else an index of forwarders
    atexitCallbacks, \* registrations of self.close_ssh_tunnel with atexit
    exited,          \* the interpreter has run its exit callbacks
    \* ---- module variant: the DatabaseConnection under construction
    db,              \* [engine, session_factory] of the object __init__ ran on
    last,            \* the last call the caller made and how it ended
    \* ---- legacy variant: the Database singleton
    CURRENT_ENV,     \* the module global CURRENT_ENV
    instance,        \* Database._instance: 0 is "no such attribute", else an
                     \* index of instances
    instances,       \* every object Database.__new__ has allocated
    legacyTunnels,   \* every forwarder an SshTunnelFactory has created
    legacyAtexit,    \* forwarders whose factory registered close_ssh_tunnel
    lastL,           \* the last Database() call and how it ended
    \* ---- get_new_session scopes of both variants
    sessions,        \* every session a session_factory has produced
    \* ---- ErrorTracking of both variants
    etTrace,         \* what each initialize() call did
    \* ---- concurrent callers of get_entrance_port
    pc,              \* the statement each caller is at
    mine,            \* the forwarder each caller constructed (0: none)
    result           \* what each caller's last call returned or raised

moduleVars == <<key_file_path, password, forwarders, tunneler, atexitCallbacks,
                db, last>>
legacyVars == <<CURRENT_ENV, instance, instances, legacyTunnels, legacyAtexit,
                lastL>>
callerVars == <<pc, mine, result>>
vars == <<moduleVars, legacyVars, sessions, etTrace, callerVars, exited>>
nonModuleVars == <<legacyVars, sessions, etTrace, callerVars>>
nonLegacyVars == <<moduleVars, sessions, etTrace, callerVars>>

\* the callers of the concurrent specification
Callers == {1, 2}

(***************************************************************************)
(* sshtunnel.SSHTunnelForwarder, as the code uses it                       *)
(***************************************************************************)
\* SSHTunnelForwarder(**parameters): keeps the SSH endpoint's port as
\* ssh_port; the local port is bound only by start()
SSHTunnelForwarder(parameters) ==
    [params          |-> parameters,
     ssh_port        |-> parameters.ssh_address_or_host[2],
     local_bind_port |-> NonePort,
     state           |-> "created"]

\* forwarder.start(): binds lport when it succeeds; a forwarder that is
\* already alive is left as it is ("Already started!")
ForwarderStart(f, startOk, lport) ==
    IF f.state = "started" THEN f
    ELSE IF startOk THEN [f EXCEPT !.state = "started", !.local_bind_port = lport]
    ELSE [f EXCEPT !.state = "start_failed"]

\* forwarder.stop()
ForwarderStop(f) == [f EXCEPT !.state = "stopped"]

IsActive(f) == f.state = "started"

(***************************************************************************)
(* SshTunnel (src/tool_kit/external.py)                                    *)
(***************************************************************************)
\* the lazy-initialisation check dropped: every call opens a forwarder
HoldsForwarder_Unchecked == FALSE

\* line 100: `if not self._tunneler` is false
HoldsForwarder == tunneler # 0

\* the password preferred whenever one is set
Credential_PasswordFirst(keyPath, pw) ==
    IF TruthyStr(pw) THEN [ssh_password |-> pw]
    ELSE [ssh_pkey |-> keyPath]

\* lines 106-109: the credential entry added to parameters
Credential(keyPath, pw) ==
    IF TruthyStr(keyPath) THEN [ssh_pkey |-> keyPath]
    ELSE [ssh_password |-> pw]

\* lines 101-109
Parameters(keyPath, pw) ==
    [ssh_address_or_host |-> <<"ssh.host", SshPort>>,
     ssh_username        |-> "ssh_user",
     remote_bind_address |-> <<"127.0.0.1", "proxy_target_port">>]
    @@ Credential(keyPath, pw)

\* line 115: the attribute of the held forwarder that is returned
EntrancePort(f) == f.ssh_port

\* the forwarder stored only once start() has returned
HeldAfterStart_StoredLate(startOk, created) == IF startOk THEN created ELSE 0

\* lines 111-112: the forwarder is stored in self._tunneler before start()
\* is called, so it is held whether or not start() raises
HeldAfterStart(startOk, created) == created

\* get_entrance_port(): the descriptor's next state, the error the call
\* raised ("none" when it returned) and what it returned
get_entrance_port(startOk, lport) ==
    IF ~HoldsForwarder
    THEN LET created == SSHTunnelForwarder(Parameters(key_file_path, password))
             f       == ForwarderStart(created, startOk, lport)
         IN  [forwarders |-> Append(forwarders, f),
              tunneler   |-> HeldAfterStart(startOk, Len(forwarders) + 1),
              atexit     |-> IF startOk THEN atexitCallbacks + 1
                             ELSE atexitCallbacks,
              error      |-> IF startOk THEN "none" ELSE "forwarder",
              ret        |-> IF startOk THEN EntrancePort(f) ELSE NonePort]
    ELSE [forwarders |-> forwarders,
          tunneler   |-> tunneler,
          atexit     |-> atexitCallbacks,
          error      |-> "none",
          ret        |-> EntrancePort(forwarders[tunneler])]

\* close_ssh_tunnel(): the descriptor's next state
close_ssh_tunnel(fs, t) ==
    IF t # 0
    THEN [forwarders |-> [fs EXCEPT ![t] = ForwarderStop(fs[t])], tunneler |-> 0]
    ELSE [forwarders |-> fs, tunneler |-> t]

\* what the caller observes of a call: its name, the error it raised ("none"
\* when it returned), what it returned, and whether the descriptor held a
\* forwarder when it was made
Call(op, error, ret) ==
    [op |-> op, error |-> error, ret |-> ret, held |-> tunneler # 0,
     port |-> NonePort, ssl_tunnel |-> FALSE]

NoCall == [op |-> "none", error |-> "none", ret |-> NonePort, held |-> FALSE,
           port |-> NonePort, ssl_tunnel |-> FALSE]

Raised(call) == call.error # "none"

\* no caller is inside get_entrance_port
Quiescent == \A t \in Callers : pc[t] \in {"idle", "done", "raised"}

\* a get_entrance_port call can be taken within the bound
CanCall == HoldsForwarder \/ Len(forwarders) < MaxForwarders

GetEntrancePort ==
    /\ ~exited
    /\ CanCall
    /\ \E startOk \in BOOLEAN, lport \in LocalPorts :
         LET r == get_entrance_port(startOk, lport)
         IN  /\ forwarders' = r.forwarders
             /\ tunneler' = r.tunneler
             /\ atexitCallbacks' = r.atexit
             /\ last' = Call("get_entrance_port", r.error, r.ret)
    /\ UNCHANGED <<key_file_path, password, exited, db, nonModuleVars>>

CloseSshTunnel ==
    /\ ~exited
    /\ Quiescent
    /\ LET r == close_ssh_tunnel(forwarders, tunneler)
       IN  /\ forwarders' = r.forwarders
           /\ tunneler' = r.tunneler
    /\ last' = Call("close_ssh_tunnel", "none", NonePort)
    /\ UNCHANGED <<key_file_path, password, atexitCallbacks, exited, db, nonModuleVars>>

\* interpreter exit: every registered callback calls close_ssh_tunnel
ProcessExit ==
    /\ ~exited
    /\ Quiescent
    /\ exited' = TRUE
    /\ LET r == IF atexitCallbacks > 0
                THEN close_ssh_tunnel(forwarders, tunneler)
                ELSE [forwarders |-> forwarders, tunneler |-> tunneler]
       IN  /\ forwarders' = r.forwarders
           /\ tunneler' = r.tunneler
    /\ last' = Call("exit", "none", NonePort)
    /\ UNCHANGED <<key_file_path, password, atexitCallbacks, db, nonModuleVars>>

(***************************************************************************)
(* DatabaseConnection (src/tool_kit/external.py)                           *)
(***************************************************************************)
\* `port is None` in place of `not port`
MissingPortAndTunnel_NoneOnly(port, ssl_tunnel) == port = NonePort /\ ~ssl_tunnel

\* line 59: `not port and not ssl_tunnel`; ssl_tunnel is TRUE when a
\* descriptor is passed (an SshTunnel object is truthy), FALSE for None
MissingPortAndTunnel(port, ssl_tunnel) == ~TruthyPort(port) /\ ~ssl_tunnel

\* line 65: the connection string, by its components
ConnectionUrl(port) ==
    [protocol |-> "postgresql", user |-> "db_user", password |-> "db_password",
     host |-> "localhost", port |-> port, name |-> "db_name"]

\* line 66: sessionmaker(bind=self.engine, expire_on_commit=False)
SessionMaker(engine) == [bind |-> engine, expire_on_commit |-> FALSE]

\* the descriptor left as it is
TunnelUntouched ==
    [forwarders |-> forwarders, tunneler |-> tunneler,
     atexit |-> atexitCallbacks, error |-> "none", ret |-> NonePort]

\* __init__ followed by _init_connection: the object's fields, the
\* descriptor's next state and the error construction raised
init_connection(port, ssl_tunnel, startOk, lport) ==
    IF MissingPortAndTunnel(port, ssl_tunnel)
    THEN [engine |-> None, session_factory |-> None,
          error |-> "configuration", tunnel |-> TunnelUntouched]
    ELSE LET tun == IF ssl_tunnel THEN get_entrance_port(startOk, lport)
                    ELSE TunnelUntouched
             effective == IF ssl_tunnel THEN tun.ret ELSE port
         IN  IF tun.error # "none"
             THEN [engine |-> None, session_factory |-> None,
                   error |-> tun.error, tunnel |-> tun]
             ELSE [engine |-> Some(ConnectionUrl(effective)),
                   session_factory |-> Some(SessionMaker(ConnectionUrl(effective))),
                   error |-> "none", tunnel |-> tun]

NewDatabaseConnection ==
    /\ ~exited
    /\ \E port \in ExplicitPorts, ssl_tunnel \in BOOLEAN,
          startOk \in BOOLEAN, lport \in LocalPorts :
         /\ ssl_tunnel => CanCall
         /\ LET r == init_connection(port, ssl_tunnel, startOk, lport)
            IN  /\ db' = [engine |-> r.engine, session_factory |-> r.session_factory]
                /\ forwarders' = r.tunnel.forwarders
                /\ tunneler' = r.tunnel.tunneler
                /\ atexitCallbacks' = r.tunnel.atexit
                /\ last' = [Call("DatabaseConnection", r.error, NonePort)
                            EXCEPT !.port = port, !.ssl_tunnel = ssl_tunnel]
    /\ UNCHANGED <<key_file_path, password, exited, nonModuleVars>>

(***************************************************************************)
(* Database and SshTunnelFactory (src/external.py)                         *)
(***************************************************************************)
\* the environment a Database() call reads
Environments ==
    [DB_USERNAME : {NoneStr, "db_user"}, DB_PASSWORD : {NoneStr, "db_password"},
     DB_NAME : {NoneStr, "db_name"}, SSH_HOST : {NoneStr, "ssh.host"},
     SSH_USERNAME : {NoneStr, "ssh_user"}, SSH_KEY_FILE : {NoneStr, "id_rsa"}]

\* line 37: `not hasattr(cls, '_instance')` is false
HasInstance == instance # 0

\* the instance cached before _init_connection has returned
CachedInstance_BeforeInit(error, created) == created

\* lines 42-44: cls._instance is assigned after _init_connection, so only
\* when it did not raise
CachedInstance(error, created) == IF error = "none" THEN created ELSE 0

\* lines 96-101: the forwarder start_tunnel creates
LegacyParameters(env) ==
    [ssh_address_or_host |-> <<env.SSH_HOST, SshPort>>,
     ssh_username        |-> env.SSH_USERNAME,
     ssh_pkey            |-> env.SSH_KEY_FILE,
     remote_bind_address |-> <<"127.0.0.1", LegacyRemotePort>>]

\* line 72: the connection string, by its components
LegacyUrl(env, port) ==
    [protocol |-> "postgresql", user |-> env.DB_USERNAME,
     password |-> env.DB_PASSWORD, host |-> "localhost", port |-> port,
     name |-> env.DB_NAME]

\* _init_connection(), with SshTunnelFactory() and start_tunnel() in DEV:
\* the error raised ("none" when it returned), the instance's fields and
\* the forwarders and exit callbacks after it
legacy_init_connection(env, startOk, lport) ==
    LET unset == [engine |-> None, session_factory |-> None]
        same  == [tunnels |-> legacyTunnels, atexit |-> legacyAtexit]
        fail(msg, t) == [error |-> msg, object |-> unset,
                         tunnels |-> t.tunnels, atexit |-> t.atexit]
        done(port, t) ==
            [error |-> "none",
             object |-> [engine |-> Some(LegacyUrl(env, port)),
                         session_factory |-> Some(SessionMaker(LegacyUrl(env, port)))],
             tunnels |-> t.tunnels, atexit |-> t.atexit]
    IN  IF ~(TruthyStr(env.DB_USERNAME) /\ TruthyStr(env.DB_PASSWORD))
        THEN fail("Database credentials not set", same)
        ELSE IF ~TruthyStr(env.DB_NAME)
        THEN fail("Database name not set", same)
        ELSE IF CURRENT_ENV # "DEV"
        THEN done(LegacyDbPort, same)
        ELSE IF ~(TruthyStr(env.SSH_HOST) /\ TruthyStr(env.SSH_USERNAME)
                    /\ TruthyStr(env.SSH_KEY_FILE))
        THEN fail("SSH credentials not set", same)
        ELSE LET f == ForwarderStart(SSHTunnelForwarder(LegacyParameters(env)),
                                     startOk, lport)
                 n == Len(legacyTunnels) + 1
             IN  IF ~startOk
                 THEN fail("forwarder", [tunnels |-> Append(legacyTunnels, f),
                                         atexit |-> legacyAtexit])
                 ELSE done(f.local_bind_port,
                           [tunnels |-> Append(legacyTunnels, f),
                            atexit |-> legacyAtexit \cup {n}])

\* a Database() call can be taken within the bound
CanConstruct == HasInstance \/ Len(instances) < MaxInitRuns

\* Database(): __new__, lines 36-46
NewDatabase ==
    /\ ~exited
    /\ CanConstruct
    /\ IF HasInstance
       THEN /\ lastL' = [op |-> "Database", error |-> "none", ret |-> instance,
                         ran |-> FALSE]
            /\ UNCHANGED <<instance, instances, legacyTunnels, legacyAtexit>>
       ELSE \E env \in Environments, startOk \in BOOLEAN, lport \in LocalPorts :
              LET r  == legacy_init_connection(env, startOk, lport)
                  id == Len(instances) + 1
              IN  /\ instances' = Append(instances, r.object)
                  /\ legacyTunnels' = r.tunnels
                  /\ legacyAtexit' = r.atexit
                  /\ instance' = CachedInstance(r.error, id)
                  /\ lastL' = [op |-> "Database", error |-> r.error,
                               ret |-> IF r.error = "none" THEN instance' ELSE 0,
                               ran |-> TRUE]
    /\ UNCHANGED <<nonLegacyVars, CURRENT_ENV, exited>>

\* interpreter exit: every registered factory callback stops its forwarder
LegacyExit ==
    /\ ~exited
    /\ exited' = TRUE
    /\ legacyTunnels' = [i \in 1..Len(legacyTunnels) |->
                            IF i \in legacyAtexit
                            THEN ForwarderStop(legacyTunnels[i])
                            ELSE legacyTunnels[i]]
    /\ lastL' = [op |-> "exit", error |-> "none", ret |-> 0, ran |-> FALSE]
    /\ UNCHANGED <<nonLegacyVars, CURRENT_ENV, instance, instances, legacyAtexit>>

(***************************************************************************)
(* get_new_session (both variants)                                         *)
(***************************************************************************)
\* commit placed in the finally block: called on every exit path
SessionTry_AlwaysCommits(log, workOk) == Append(log, "commit")

\* src/tool_kit/external.py lines 50-52: after the yield, commit is reached
\* only when the caller's block completed
SessionTry(log, workOk) == IF workOk THEN Append(log, "commit") ELSE log

\* close placed after commit inside the try: skipped when anything raised
SessionFinally_NoFinally(log, raising) == IF raising THEN log ELSE Append(log, "close")

\* src/tool_kit/external.py lines 53-54: finally
SessionFinally(log, raising) == Append(log, "close")

\* src/external.py lines 51-53
LegacySessionTry(log, workOk) == IF workOk THEN Append(log, "commit") ELSE log

\* src/external.py lines 54-55
LegacySessionFinally(log, raising) == Append(log, "close")

\* how the scope ends: "returned", or the exception that leaves it
ScopeEnd(workOk, commitOk) ==
    IF ~workOk THEN "work_raised"
    ELSE IF ~commitOk THEN "commit_raised"
    ELSE "returned"

\* the session once the scope is left: the calls made on it, in order, and
\* how the scope ended
get_new_session_exit(session, workOk, commitOk) ==
    LET raising == ~workOk \/ ~commitOk
        log == IF session.owner = "DatabaseConnection"
               THEN SessionFinally(SessionTry(session.log, workOk), raising)
               ELSE LegacySessionFinally(LegacySessionTry(session.log, workOk), raising)
    IN  [session EXCEPT !.log = log, !.status = ScopeEnd(workOk, commitOk)]

\* the object whose get_new_session is called has a session factory
HasSessionFactory(owner) ==
    IF owner = "DatabaseConnection" THEN db.session_factory # None
    ELSE HasInstance /\ instances[instance].session_factory # None

\* lines 49-51: session = self.session_factory(), then the yield
EnterSession ==
    /\ ~exited
    /\ Len(sessions) < MaxSessions
    /\ \E owner \in {"DatabaseConnection", "Database"} :
         /\ HasSessionFactory(owner)
         /\ sessions' = Append(sessions, [owner |-> owner, log |-> <<>>,
                                          status |-> "open"])
    /\ UNCHANGED <<moduleVars, legacyVars, etTrace, callerVars, exited>>

\* the with-block completes and the generator resumes after the yield
LeaveSession ==
    /\ ~exited
    /\ \E i \in 1..Len(sessions), commitOk \in BOOLEAN :
         /\ sessions[i].status = "open"
         /\ sessions' = [sessions EXCEPT
                            ![i] = get_new_session_exit(sessions[i], TRUE, commitOk)]
    /\ UNCHANGED <<moduleVars, legacyVars, etTrace, callerVars, exited>>

\* the with-block raises and the exception is thrown in at the yield
AbortSession ==
    /\ ~exited
    /\ \E i \in 1..Len(sessions) :
         /\ sessions[i].status = "open"
         /\ sessions' = [sessions EXCEPT
                            ![i] = get_new_session_exit(sessions[i], FALSE, TRUE)]
    /\ UNCHANGED <<moduleVars, legacyVars, etTrace, callerVars, exited>>

(***************************************************************************)
(* ErrorTracking (both variants)                                           *)
(***************************************************************************)
\* src/tool_kit/external.py lines 15-20
initialize(dsn) ==
    IF TruthyStr(dsn) THEN [did |-> "sentry_sdk.init", arg |-> dsn]
    ELSE [did |-> "raise", arg |-> "Unable to load DSN"]

\* the environment test written against DEV
legacy_initialize_WrongEnv(env, dsn) ==
    IF env = "DEV"
    THEN IF TruthyStr(dsn) THEN [did |-> "sentry_sdk.init", arg |-> dsn]
         ELSE [did |-> "raise", arg |-> "Unable to load DSN"]
    ELSE [did |-> "logging.warning", arg |-> "Skipping error tracking service"]

\* src/external.py lines 24-32
legacy_initialize(env, dsn) ==
    IF env = "PROD"
    THEN IF TruthyStr(dsn) THEN [did |-> "sentry_sdk.init", arg |-> dsn]
         ELSE [did |-> "raise", arg |-> "Unable to load DSN"]
    ELSE [did |-> "logging.warning", arg |-> "Skipping error tracking service"]

Initialize ==
    /\ ~exited
    /\ Len(etTrace) < MaxInitializeCalls
    /\ \E dsn \in Dsns :
         etTrace' = Append(etTrace, [variant |-> "tool_kit", env |-> CURRENT_ENV,
                                     dsn |-> dsn, outcome |-> initialize(dsn)])
    /\ UNCHANGED <<moduleVars, legacyVars, sessions, callerVars, exited>>

LegacyInitialize ==
    /\ ~exited
    /\ Len(etTrace) < MaxInitializeCalls
    /\ \E dsn \in Dsns :
         etTrace' = Append(etTrace, [variant |-> "legacy", env |-> CURRENT_ENV,
                                     dsn |-> dsn,
                                     outcome |-> legacy_initialize(CURRENT_ENV, dsn)])
    /\ UNCHANGED <<moduleVars, legacyVars, sessions, callerVars, exited>>

(***************************************************************************)
(* get_entrance_port run by concurrent callers, statement by statement     *)
(* (src/tool_kit/external.py lines 96-115); close_ssh_tunnel and the       *)
(* interpreter's exit are taken while no caller is inside the method       *)
(***************************************************************************)
\* the store skipped when another caller has stored a forwarder meanwhile
StoredTunneler_KeepFirst(current, created) ==
    IF current # 0 THEN current ELSE created

\* line 111: the store into self._tunneler overwrites whatever is held
StoredTunneler(current, created) == created

\* forwarders constructed or about to be: the bound on them
Pending == Len(forwarders) + Cardinality({t \in Callers : pc[t] = "construct"})

At(t, from, to) == pc[t] = from /\ pc' = [pc EXCEPT ![t] = to]

\* the caller enters get_entrance_port
CallerEnter(t) ==
    /\ ~exited
    /\ pc[t] \in {"idle", "done", "raised"}
    /\ pc' = [pc EXCEPT ![t] = "check"]
    /\ mine' = [mine EXCEPT ![t] = 0]
    /\ UNCHANGED <<moduleVars, legacyVars, sessions, etTrace, result, exited>>

\* line 100: if not self._tunneler
CallerCheck(t) ==
    /\ pc[t] = "check"
    /\ IF HoldsForwarder
       THEN pc' = [pc EXCEPT ![t] = "return"]
       ELSE /\ Pending < MaxForwarders
            /\ pc' = [pc EXCEPT ![t] = "construct"]
    /\ UNCHANGED <<moduleVars, legacyVars, sessions, etTrace, mine, result, exited>>

\* lines 101-111: SSHTunnelForwarder(**parameters), not yet stored
CallerConstruct(t) ==
    /\ At(t, "construct", "store")
    /\ forwarders' = Append(forwarders,
                            SSHTunnelForwarder(Parameters(key_file_path, password)))
    /\ mine' = [mine EXCEPT ![t] = Len(forwarders) + 1]
    /\ UNCHANGED <<key_file_path, password, tunneler, atexitCallbacks, db, last,
                   legacyVars, sessions, etTrace, result, exited>>

\* line 111: self._tunneler = ...
CallerStore(t) ==
    /\ At(t, "store", "start")
    /\ tunneler' = StoredTunneler(tunneler, mine[t])
    /\ UNCHANGED <<key_file_path, password, forwarders, atexitCallbacks, db, last,
                   legacyVars, sessions, etTrace, mine, result, exited>>

\* line 112: self._tunneler.start(), on whichever forwarder is held now
CallerStart(t) ==
    /\ pc[t] = "start"
    /\ \E startOk \in BOOLEAN, lport \in LocalPorts :
         LET f == ForwarderStart(forwarders[tunneler], startOk, lport)
         IN  /\ forwarders' = [forwarders EXCEPT ![tunneler] = f]
             /\ IF IsActive(f)
                THEN /\ pc' = [pc EXCEPT ![t] = "register"]
                     /\ UNCHANGED result
                ELSE /\ pc' = [pc EXCEPT ![t] = "raised"]
                     /\ result' = [result EXCEPT
                                      ![t] = [error |-> "forwarder", ret |-> NonePort]]
    /\ UNCHANGED <<key_file_path, password, tunneler, atexitCallbacks, db, last,
                   legacyVars, sessions, etTrace, mine, exited>>

\* line 113: atexit.register(self.close_ssh_tunnel)
CallerRegister(t) ==
    /\ At(t, "register", "return")
    /\ atexitCallbacks' = atexitCallbacks + 1
    /\ UNCHANGED <<key_file_path, password, forwarders, tunneler, db, last,
                   legacyVars, sessions, etTrace, mine, result, exited>>

\* line 115: return self._tunneler.ssh_port
CallerReturn(t) ==
    /\ At(t, "return", "done")
    /\ result' = [result EXCEPT
                     ![t] = [error |-> "none",
                             ret |-> EntrancePort(forwarders[tunneler])]]
    /\ UNCHANGED <<moduleVars, legacyVars, sessions, etTrace, mine, exited>>

(***************************************************************************)
(* Initial states and specifications                                       *)
(***************************************************************************)
\* no SshTunnel or DatabaseConnection call made yet
ModuleIdle ==
    /\ forwarders = <<>>
    /\ tunneler = 0
    /\ atexitCallbacks = 0
    /\ db = [engine |-> None, session_factory |-> None]
    /\ last = NoCall

\* no session opened, no initialize() call made, no caller inside
\* get_entrance_port
OthersIdle ==
    /\ sessions = <<>>
    /\ etTrace = <<>>
    /\ pc = [t \in Callers |-> "idle"]
    /\ mine = [t \in Callers |-> 0]
    /\ result = [t \in Callers |-> [error |-> "none", ret |-> NonePort]]

\* no Database() call made yet
LegacyIdle ==
    /\ instance = 0
    /\ instances = <<>>
    /\ legacyTunnels = <<>>
    /\ legacyAtexit = {}
    /\ lastL = [op |-> "none", error |-> "none", ret |-> 0, ran |-> FALSE]

\* the module variant: one SshTunnel descriptor, constructed with any
\* credentials, and the DatabaseConnection objects built by one caller
Init ==
    /\ key_file_path \in KeyFilePaths
    /\ password \in Passwords
    /\ ModuleIdle
    /\ CURRENT_ENV = "DEV"
    /\ LegacyIdle
    /\ OthersIdle
    /\ exited = FALSE

Next ==
    \/ GetEntrancePort
    \/ CloseSshTunnel
    \/ ProcessExit
    \/ NewDatabaseConnection

Spec == Init /\ [][Next]_vars

\* the legacy variant: Database() calls by one caller, in either environment
InitLegacy ==
    /\ key_file_path = NoneStr
    /\ password = NoneStr
    /\ ModuleIdle
    /\ CURRENT_ENV \in {"PROD", "DEV"}
    /\ LegacyIdle
    /\ OthersIdle
    /\ exited = FALSE

NextLegacy ==
    \/ NewDatabase
    \/ LegacyExit

SpecLegacy == InitLegacy /\ [][NextLegacy]_vars

\* get_new_session of both variants, on a DatabaseConnection built with an
\* explicit port and on the Database singleton of a production process
InitSession ==
    /\ key_file_path = NoneStr
    /\ password = NoneStr
    /\ forwarders = <<>>
    /\ tunneler = 0
    /\ atexitCallbacks = 0
    /\ CURRENT_ENV = "PROD"
    /\ legacyTunnels = <<>>
    /\ legacyAtexit = {}
    /\ \E port \in ExplicitPorts, env \in Environments :
         LET m == init_connection(port, FALSE, FALSE, NonePort)
             l == legacy_init_connection(env, FALSE, NonePort)
         IN  /\ m.error = "none"
             /\ l.error = "none"
             /\ db = [engine |-> m.engine, session_factory |-> m.session_factory]
             /\ last = [NoCall EXCEPT !.op = "DatabaseConnection", !.port = port]
             /\ instances = <<l.object>>
             /\ instance = 1
             /\ lastL = [op |-> "Database", error |-> "none", ret |-> 1, ran |-> TRUE]
    /\ OthersIdle
    /\ exited = FALSE

NextSession ==
    \/ EnterSession
    \/ LeaveSession
    \/ AbortSession

SpecSession == InitSession /\ [][NextSession]_vars

\* ErrorTracking.initialize of both variants, in either environment
InitErrorTracking == InitLegacy

NextErrorTracking ==
    \/ Initialize
    \/ LegacyInitialize

SpecErrorTracking == InitErrorTracking /\ [][NextErrorTracking]_vars

\* two callers sharing one SshTunnel descriptor
NextConcurrent ==
    \/ \E t \in Callers :
         \/ CallerEnter(t)
         \/ CallerCheck(t)
         \/ CallerConstruct(t)
         \/ CallerStore(t)
         \/ CallerStart(t)
         \/ CallerRegister(t)
         \/ CallerReturn(t)
    \/ CloseSshTunnel
    \/ ProcessExit

SpecConcurrent == Init /\ [][NextConcurrent]_vars

(***************************************************************************)
(* Observations used by the claims                                         *)
(***************************************************************************)
Indices == 1..Len(forwarders)
ActiveForwarders == {i \in Indices : IsActive(forwarders[i])}
\* the step is a call of `op` that changes the state
IsCall(op) == last'.op = op /\ vars' # vars
\* the step creates a forwarder
Creates == Len(forwarders') > Len(forwarders)
CredentialKeys(f) == DOMAIN f.params \cap {"ssh_pkey", "ssh_password"}

(***************************************************************************)
(* Claims about the module variant's tunnel and connection (Spec)          *)
(***************************************************************************)

\* C1: a DatabaseConnection built with a tunnel descriptor puts into the
\* connection string the local port the held forwarder is bound to.
C1_UrlPortIsLocalBindPort ==
    (last.op = "DatabaseConnection" /\ last.ssl_tunnel /\ ~Raised(last)) =>
        /\ db.engine # None
        /\ tunneler # 0
        /\ db.engine[1].port = forwarders[tunneler].local_bind_port

\* C3: with a single caller at most one forwarder is active; a forwarder is
\* created, and becomes active, only in a get_entrance_port call that found
\* none held; a call that finds one held creates and starts nothing and
\* returns the held forwarder's port, the same on every such call.
C3_AtMostOneActiveForwarder ==
    /\ [](Cardinality(ActiveForwarders) <= 1)
    /\ [][/\ Creates =>
               /\ tunneler = 0
               /\ last'.op \in {"get_entrance_port", "DatabaseConnection"}
               /\ Len(forwarders') = Len(forwarders) + 1
          /\ \A i \in 1..Len(forwarders') :
               (IsActive(forwarders'[i]) /\ (i \in Indices => ~IsActive(forwarders[i])))
                   => (tunneler = 0 /\ i = Len(forwarders) + 1 /\ tunneler' = i)
          /\ (IsCall("get_entrance_port") /\ tunneler # 0) =>
               /\ forwarders' = forwarders
               /\ tunneler' = tunneler
               /\ atexitCallbacks' = atexitCallbacks
               /\ ~Raised(last')
               /\ last'.ret = forwarders[tunneler].ssh_port
               /\ (last.op = "get_entrance_port" /\ ~Raised(last))
                      => last'.ret = last.ret]_vars

\* a second consecutive call returned while the forwarder opened by the first
\* is the only one active
C3_Witness ==
    /\ last.op = "get_entrance_port" /\ last.held /\ ~Raised(last)
    /\ ActiveForwarders = {tunneler}
    /\ Len(forwarders) = 1

\* C4: construction with neither a truthy port nor a tunnel descriptor raises
\* the configuration error, leaves engine and session_factory None and
\* touches no forwarder.
C4_NoPortNoTunnelFails ==
    /\ []((last.op = "DatabaseConnection" /\ ~TruthyPort(last.port) /\ ~last.ssl_tunnel)
            => /\ last.error = "configuration"
               /\ db.engine = None
               /\ db.session_factory = None)
    /\ [][(IsCall("DatabaseConnection") /\ ~TruthyPort(last'.port) /\ ~last'.ssl_tunnel)
            => /\ forwarders' = forwarders
               /\ tunneler' = tunneler
               /\ atexitCallbacks' = atexitCallbacks]_vars

\* construction with the falsy port 0 and no descriptor has raised
C4_Witness ==
    /\ last.op = "DatabaseConnection" /\ last.port = 0 /\ ~last.ssl_tunnel
    /\ last.error = "configuration"
    /\ db.engine = None

\* C6: every forwarder is created with exactly one credential: the key file
\* when key_file_path is truthy (whatever the password), else the password.
C6_ExactlyOneCredential ==
    \A i \in Indices :
        /\ Cardinality(CredentialKeys(forwarders[i])) = 1
        /\ TruthyStr(key_file_path) =>
               /\ CredentialKeys(forwarders[i]) = {"ssh_pkey"}
               /\ forwarders[i].params.ssh_pkey = key_file_path
        /\ ~TruthyStr(key_file_path) =>
               /\ CredentialKeys(forwarders[i]) = {"ssh_password"}
               /\ forwarders[i].params.ssh_password = password

\* a forwarder created while both a key file and a password are set
C6_Witness ==
    /\ TruthyStr(key_file_path) /\ TruthyStr(password)
    /\ Len(forwarders) > 0

IsDatabaseCall == lastL'.op = "Database" /\ vars' # vars

\* C7: the cached instance never changes, so every call that returns yields
\* it; once an instance is cached no call runs _init_connection (no object,
\* forwarder or exit callback is added); a call whose _init_connection raises
\* caches nothing, and a call that finds nothing cached runs it.
C7_SingletonInitialisedOnce ==
    /\ [][HasInstance => instance' = instance]_vars
    /\ [][IsDatabaseCall =>
            /\ ~Raised(lastL') => (lastL'.ret = instance' /\ instance' # 0)
            /\ HasInstance =>
                 /\ ~lastL'.ran /\ ~Raised(lastL')
                 /\ instances' = instances
                 /\ legacyTunnels' = legacyTunnels
                 /\ legacyAtexit' = legacyAtexit
            /\ ~HasInstance =>
                 /\ lastL'.ran
                 /\ Len(instances') = Len(instances) + 1
            /\ Raised(lastL') => (instance' = 0 /\ instance = 0)]_vars

\* a call returned the cached instance without initialising, after one call
\* failed and the next one succeeded
C7_Witness ==
    /\ lastL.op = "Database" /\ ~lastL.ran /\ ~Raised(lastL)
    /\ Len(instances) = 2
    /\ instance = 2
    /\ lastL.ret = 2

(***************************************************************************)
(* Claims about get_new_session (SpecSession)                              *)
(***************************************************************************)
Count(log, call) == Cardinality({k \in 1..Len(log) : log[k] = call})
Left(session) == session.status # "open"

\* C2: in both variants every scope that has been left, whether it returned,
\* the caller's block raised or commit raised, closed its session exactly
\* once, and close is the last call made on the session.
C2_ClosedExactlyOnce ==
    \A i \in 1..Len(sessions) :
        /\ Left(sessions[i]) =>
             /\ Count(sessions[i].log, "close") = 1
             /\ sessions[i].log[Len(sessions[i].log)] = "close"
        /\ ~Left(sessions[i]) => Count(sessions[i].log, "close") = 0

\* the three exit paths have all been taken, in both variants
C2_Witness ==
    /\ \A how \in {"returned", "work_raised", "commit_raised"} :
         \E i \in 1..Len(sessions) : sessions[i].status = how
    /\ \A owner \in {"DatabaseConnection", "Database"} :
         \E i \in 1..Len(sessions) : sessions[i].owner = owner /\ Left(sessions[i])

\* C8: when the caller's block completes, commit is called exactly once and
\* before close; when the caller's block raises, commit is never called and
\* the scope ends with the caller's exception.
C8_CommitOnlyOnNormalCompletion ==
    \A i \in 1..Len(sessions) :
        /\ sessions[i].status \in {"returned", "commit_raised"} =>
             sessions[i].log = <<"commit", "close">>
        /\ sessions[i].status = "work_raised" =>
             /\ Count(sessions[i].log, "commit") = 0
             /\ sessions[i].log = <<"close">>
        /\ Count(sessions[i].log, "commit") > 0 =>
             sessions[i].status \in {"returned", "commit_raised"}

\* one scope of each variant was left by the caller's exception and one
\* returned after its commit
C8_Witness ==
    /\ \E i \in 1..Len(sessions) :
         sessions[i].status = "work_raised" /\ sessions[i].owner = "DatabaseConnection"
    /\ \E i \in 1..Len(sessions) :
         sessions[i].status = "work_raised" /\ sessions[i].owner = "Database"
    /\ \E i \in 1..Len(sessions) : sessions[i].status = "returned"

(***************************************************************************)
(* Claims about ErrorTracking (SpecErrorTracking)                          *)
(***************************************************************************)
\* C5: the module variant raises exactly when the DSN is falsy and otherwise
\* initialises the client with it; the legacy variant raises exactly when
\* the environment is PROD and the DSN is falsy, initialises the client
\* exactly when it is PROD and the DSN is truthy, and outside PROD only logs.
C5_RaisesExactlyWhenDsnRequiredAndAbsent ==
    \A i \in 1..Len(etTrace) :
        LET e == etTrace[i]
            required == e.variant = "tool_kit" \/ e.env = "PROD"
        IN  /\ (e.outcome.did = "raise") <=> (required /\ ~TruthyStr(e.dsn))
            /\ (e.outcome.did = "sentry_sdk.init") <=> (required /\ TruthyStr(e.dsn))
            /\ (e.outcome.did = "sentry_sdk.init") => e.outcome.arg = e.dsn
            /\ (e.outcome.did = "logging.warning") <=> ~required
            /\ e.outcome.did \in {"raise", "sentry_sdk.init", "logging.warning"}

\* in a non-production process the module variant raised on an unset DSN and
\* the legacy variant skipped on an unset and on a set DSN
C5_Witness ==
    /\ Len(etTrace) = 3
    /\ \E i \in 1..3 : /\ etTrace[i].variant = "tool_kit"
                       /\ etTrace[i].dsn = NoneStr
                       /\ etTrace[i].outcome.did = "raise"
    /\ \E i \in 1..3 : /\ etTrace[i].variant = "legacy"
                       /\ etTrace[i].dsn = NoneStr
                       /\ etTrace[i].outcome.did = "logging.warning"
    /\ \E i \in 1..3 : /\ etTrace[i].variant = "legacy"
                       /\ TruthyStr(etTrace[i].dsn)
                       /\ etTrace[i].outcome.did = "logging.warning"

(***************************************************************************)
(* Claims about concurrent first use (SpecConcurrent)                      *)
(***************************************************************************)
\* C9: with two concurrent callers the store of a newly created forwarder
\* overwrites whatever the descriptor holds, and a forwarder stops being
\* active only as the one the descriptor holds when close_ssh_tunnel (or the
\* exit callback) runs; so when both callers pass the check and each starts
\* its own forwarder, the one stored first is never stopped.
C9_OnlyTheRetainedForwarderIsStopped ==
    /\ [][\A t \in Callers :
            (pc[t] = "store" /\ pc'[t] = "start") => tunneler' = mine[t]]_vars
    /\ [][\A i \in Indices :
            (IsActive(forwarders[i]) /\ ~IsActive(forwarders'[i])) =>
                /\ tunneler = i
                /\ tunneler' = 0
                /\ last'.op \in {"close_ssh_tunnel", "exit"}]_vars

\* both callers passed the check on the fresh descriptor, each created and
\* started a forwarder and returned; close_ssh_tunnel then stopped the second
\* and the first is still active while the descriptor holds none
C9_Witness ==
    /\ \A t \in Callers : pc[t] = "done"
    /\ mine[1] # 0 /\ mine[2] # 0 /\ mine[1] # mine[2]
    /\ Len(forwarders) = 2
    /\ IsActive(forwarders[1])
    /\ forwarders[2].state = "stopped"
    /\ tunneler = 0
    /\ last.op = "close_ssh_tunnel"
    /\ atexitCallbacks = 2
====
